---------------------------- MODULE Spec2Model ----------------------------
(***************************************************************************)
(* Megakernel path tracer core (PathTracer.slang): the scatter-ray payload *)
(* protocol of one path, the shadow-ray primitive and the trace counter.   *)
(*                                                                         *)
(* Numbers.  Radiance, throughput and pdf values are non-negative          *)
(* integers; a float3 is a tuple of three of them.  MIS weights are kept   *)
(* in fixed point with MisOne standing for 1.f, so the Le field is held in *)
(* units of 1/MisOne.  NaN is a separate value that every product          *)
(* propagates and every comparison rejects, as IEEE arithmetic does.       *)
(* Points, directions and normals are small integers used as names.        *)
(* Random draws (rayData.sg) are the nondeterministic inputs of an action. *)
(*                                                                         *)
(* Scene render pass (SceneRenderPass.cpp): the frame buffer object of the *)
(* pass, its depth-stencil state and clear flags over a sequence of        *)
(* execute and setScene calls.  Textures are named by strings.             *)
(***************************************************************************)
EXTENDS Integers, Sequences, FiniteSets, TLC

VARIABLES
    kUseMIS,              \* static configuration of the shader program
    kUseBRDFSampling,
    kUseEnvLight,
    kUseEmissiveLights,
    kUseEmissiveSampler,
    computeIndirect,      \* the capability flag the hit program passes to handleHit
    rayData,              \* ScatterRayData payload of the path
    traceCount,           \* the counter logTraceRay() increments
    last,                 \* history: the last operation and its inputs
    pc,                   \* position of the raygen loop
    depth,                \* loop counter of the raygen loop
    nSegments,            \* history: handleHit calls that generated a segment
    calls,                \* history: the trace calls made so far, by kind
    lanes,                \* payloads of the paths traced concurrently, by lane
    writers,              \* history: the lanes that have written each location
    pass,                 \* the SceneRenderPass object: mpFbo, mpState, ...
    textures,             \* what each texture holds
    passLast,             \* history: the last call on the pass and its render data
    nExecute              \* history: number of execute calls made

vars == <<kUseMIS, kUseBRDFSampling, kUseEnvLight, kUseEmissiveLights,
          kUseEmissiveSampler, computeIndirect, rayData, traceCount, last,
          pc, depth, nSegments, calls, lanes, writers,
          pass, textures, passLast, nExecute>>

laneVars == <<lanes, writers>>

passVars == <<pass, textures, passLast, nExecute>>

config == <<kUseMIS, kUseBRDFSampling, kUseEnvLight, kUseEmissiveLights,
            kUseEmissiveSampler, computeIndirect>>

---------------------------------------------------------------------------
(* Bounds and program constants *)

\* Maximum number of bounces; a compile-time constant of the shader.
kMaxBounces == 2

\* The weight 1.f in fixed point (sixths are exact for every pdf pair used).
MisOne == 6

\* Number of trace calls made when the two trace functions are called in any
\* order.
MaxCalls == 3

\* Number of trace calls made by the lanes of two concurrent paths together.
MaxLaneCalls == 2

\* Number of execute calls made on the render pass.
MaxExecutes == 3

\* Minimum cosine accepted by the hemisphere fallback, in cosine units.
kMinCosTheta == 2

NaN == 0 - 1

---------------------------------------------------------------------------
(* float and float3 arithmetic *)

Channels == 1..3

Zero3 == <<0, 0, 0>>

One3 == <<1, 1, 1>>

\* a * b on floats: NaN in, NaN out.
FMul(a, b) == IF a = NaN \/ b = NaN THEN NaN ELSE a * b

\* a * b on float3, channel by channel.
VMul(a, b) == <<FMul(a[1], b[1]), FMul(a[2], b[2]), FMul(a[3], b[3])>>

\* v * s for a float3 v and a float s.
VScale(v, s) == <<FMul(v[1], s), FMul(v[2], s), FMul(v[3], s)>>

\* all(v == 0.f)
AllZero(v) == \A i \in Channels : v[i] = 0

\* any(v > 0.f)
AnyPositive(v) == \E i \in Channels : v[i] > 0

Min(a, b) == IF a < b THEN a ELSE b

---------------------------------------------------------------------------
(* The scene and the material: collaborators of the core, read-only during *)
(* a frame.  Their results are drawn from the small sets below.            *)

\* A direction is named by its cosine to the shading normal, in cosine units:
\* 1 lies below kMinCosTheta, 2 is exactly kMinCosTheta.
Dirs == {1, 2}

\* Normals: 0 is the initial value, 1 a shading normal sd.N, 2 the same normal
\* after the lossy compression of the packed payload.

\* ShadingData at a hit: sd.N, sd.NdotV, sd.emissive, sd.computeNewRayOrigin().
sdPlain    == [N |-> 1, NdotV |-> 2, emissive |-> Zero3,       newRayOrigin |-> 1]

sdEmissive == [N |-> 1, NdotV |-> 2, emissive |-> <<1, 2, 0>>, newRayOrigin |-> 1]

sdGrazing  == [N |-> 1, NdotV |-> 1, emissive |-> Zero3,       newRayOrigin |-> 1]

ShadingPoints == {sdPlain, sdEmissive, sdGrazing}

\* A surface hit: the shading data and the TriangleHit of the primitive.  The
\* emissive sampler gives primitive 1 the pdf 1 and primitive 2 the pdf 0.
SurfaceHits ==
    { [sd |-> sdPlain, hit |-> 1], [sd |-> sdGrazing, hit |-> 1],
      [sd |-> sdEmissive, hit |-> 1], [sd |-> sdEmissive, hit |-> 2] }

\* SceneLightSample returned by sampleSceneLights(): an invalid sample
\* (no channel of Li is > 0) and a valid one.
LightSamples ==
    { [dir |-> 1, rayDir |-> 1, rayDistance |-> 1, Li |-> Zero3],
      [dir |-> 2, rayDir |-> 2, rayDistance |-> 2, Li |-> <<1, 2, 1>>] }

\* BRDFSample returned by sampleBRDF(): an invalid sample (thp == 0) and
\* valid ones.
BRDFSamples ==
    { [dir |-> 1, thp |-> Zero3,       pdf |-> 0],
      [dir |-> 2, thp |-> <<1, 0, 1>>, pdf |-> 2],
      [dir |-> 1, thp |-> One3,        pdf |-> 1] }

\* The fallback's draw: the direction sampleHemisphereCosine() returns and the
\* value of evalBRDF(sd, dir) * M_PI for it.
HemisphereSamples ==
    { [dir |-> 1, fPi |-> One3],
      [dir |-> 2, fPi |-> <<1, 0, 1>>],
      [dir |-> 2, fPi |-> Zero3] }

\* dot(sd.N, dir)
Dot(N, dir) == dir

\* pdf of sampleHemisphereCosine(): cos(theta) / pi, in units of 1/pi.
HemisphereCosinePdf(N, dir) == Dot(N, dir)

\* evalBRDFCosine(sd, dir)
evalBRDFCosine(sd, dir) ==
    IF Min(sd.NdotV, Dot(sd.N, dir)) < kMinCosTheta THEN Zero3 ELSE <<1, 1, 2>>

\* evalEnvProbe(pt.envProbe, dir)
evalEnvProbe(dir) == IF dir = 1 THEN <<2, 1, 0>> ELSE <<1, 1, 1>>

\* evalEnvProbePdf(pt.envProbe, dir)
evalEnvProbePdf(dir) == IF dir = 1 THEN 1 ELSE 0

getEnvLightSelectionPdf == 1

\* pt.emissiveSampler.evalPdf(origin, normal, hit)
emissiveSampler_evalPdf(origin, normal, hit) == IF hit = 1 THEN 1 ELSE 0

getEmissiveLightSelectionPdf == 1

\* evalMIS(pt.params, p0, p1): the balance heuristic p0 / (p0 + p1), in units
\* of 1/MisOne; 0/0 is NaN.
evalMIS(p0, p1) ==
    IF p0 = NaN \/ p1 = NaN \/ p0 + p1 = 0 THEN NaN
    ELSE (MisOne * p0) \div (p0 + p1)

\* logTraceRay(): one more ray in the statistics.
logTraceRay(count) == count + 1

---------------------------------------------------------------------------
(* Payloads *)

\* ScatterRayData as the raygen program creates it.  The three h-fields are
\* history, not payload: whether a shadow ray or a scatter ray was generated
\* since the fields were last cleared, and whether one of them was generated
\* on a payload that was already terminated.
ScatterRayData_create ==
    [ origin |-> 0, direction |-> 1, thp |-> One3, Le |-> Zero3, Lr |-> Zero3,
      pdf |-> 0, normal |-> 0, pathLength |-> 0, shadowRay |-> <<0, 0>>,
      terminated |-> FALSE,
      hGenShadow |-> FALSE, hGenScatter |-> FALSE, hLate |-> FALSE ]

\* The history fields cleared, at the start of an operation.
ClearHistory(rd) ==
    [rd EXCEPT !.hGenShadow = FALSE, !.hGenScatter = FALSE, !.hLate = FALSE]

\* The payload fields proper, without the history fields.
Fields(rd) ==
    [ origin |-> rd.origin, direction |-> rd.direction, thp |-> rd.thp,
      Le |-> rd.Le, Lr |-> rd.Lr, pdf |-> rd.pdf, normal |-> rd.normal,
      pathLength |-> rd.pathLength, shadowRay |-> rd.shadowRay,
      terminated |-> rd.terminated ]

\* The lossy compression of the normal in the packed payload.
encodeNormal(n) == IF n = 1 THEN 2 ELSE n

---------------------------------------------------------------------------
(* PathTracer.slang *)

\* The ray descriptor traceShadowRay sets up.
ShadowRayDesc(origin, dir, distance, valid) ==
    [ Origin |-> origin, Direction |-> dir, TMin |-> 0,
      TMax |-> IF valid THEN distance ELSE 0 ]

\* TraceRay() of a shadow ray: the search ends at the first accepted hit and
\* no closest-hit program runs; the miss program marks the payload visible.
\* outcome says whether an occluder was accepted.
TraceRayShadow(ray, shadowData, outcome) ==
    IF outcome = "miss" THEN [shadowData EXCEPT !.visible = TRUE]
    ELSE shadowData

\* Outcomes a shadow-ray dispatch can have: with TMax = 0 nothing can be hit.
ShadowOutcomes(ray) == IF ray.TMax = 0 THEN {"miss"} ELSE {"hit", "miss"}

\* Mutant of traceShadowRay: the early return for dummy rays is missing.
traceShadowRay_NoEarlyReturn(origin, dir, distance, valid, outcome, count) ==
    LET ray      == ShadowRayDesc(origin, dir, distance, valid)
        rayData0 == [visible |-> FALSE]
        rayData1 == TraceRayShadow(ray, rayData0, outcome)
    IN  [ret |-> rayData1.visible, traceCount |-> logTraceRay(count)]

\* Mutant of traceShadowRay: the shadow payload starts as visible.
traceShadowRay_InitVisible(origin, dir, distance, valid, outcome, count) ==
    LET ray      == ShadowRayDesc(origin, dir, distance, valid)
        rayData0 == [visible |-> TRUE]
        rayData1 == TraceRayShadow(ray, rayData0, outcome)
    IN  IF ~valid
        THEN [ret |-> FALSE, traceCount |-> count]
        ELSE [ret |-> rayData1.visible, traceCount |-> logTraceRay(count)]

\* traceShadowRay(origin, dir, distance, valid): the value returned and the
\* trace counter afterwards.
traceShadowRay(origin, dir, distance, valid, outcome, count) ==
    LET ray      == ShadowRayDesc(origin, dir, distance, valid)
        rayData0 == [visible |-> FALSE]
        rayData1 == TraceRayShadow(ray, rayData0, outcome)
    IN  IF ~valid
        THEN [ret |-> FALSE, traceCount |-> count]
        ELSE [ret |-> rayData1.visible, traceCount |-> logTraceRay(count)]

\* Mutant of generateShadowRay: Lr is written only for a valid light sample.
generateShadowRay_KeepsLr(sd, rayOrigin, ls, rd) ==
    LET valid == AnyPositive(ls.Li)
    IN  [rd EXCEPT
            !.shadowRay  = <<ls.rayDir, ls.rayDistance>>,
            !.Lr         = IF valid
                           THEN VMul(VMul(evalBRDFCosine(sd, ls.dir), ls.Li), rd.thp)
                           ELSE @,
            !.hGenShadow = TRUE,
            !.hLate      = @ \/ rd.terminated]

\* generateShadowRay(pt, sd, rayOrigin, rayData), ls being the light sample
\* sampleSceneLights() draws.
generateShadowRay(sd, rayOrigin, ls, rd) ==
    LET valid == AnyPositive(ls.Li)
    IN  [rd EXCEPT
            !.shadowRay  = <<ls.rayDir, ls.rayDistance>>,
            !.Lr         = IF valid
                           THEN VMul(VMul(evalBRDFCosine(sd, ls.dir), ls.Li), rd.thp)
                           ELSE Zero3,
            !.hGenShadow = TRUE,
            !.hLate      = @ \/ rd.terminated]

\* Mutant of generateScatterRay: the termination test reads the throughput
\* the payload held before the update.
generateScatterRay_StaleTest(sd, rayOrigin, smp, rd) ==
    LET w  == IF kUseBRDFSampling THEN smp.brdf.thp ELSE smp.hemi.fPi
        d  == IF kUseBRDFSampling THEN smp.brdf.dir ELSE smp.hemi.dir
        p  == IF kUseBRDFSampling THEN smp.brdf.pdf
              ELSE IF Min(sd.NdotV, Dot(sd.N, d)) < kMinCosTheta THEN 0
              ELSE HemisphereCosinePdf(sd.N, d)
        r1 == [rd EXCEPT !.origin = rayOrigin, !.direction = d,
                         !.thp = VMul(rd.thp, w),
                         !.pdf = IF kUseMIS THEN p ELSE 0,
                         !.normal = IF kUseMIS THEN sd.N ELSE @]
        r2 == IF AllZero(rd.thp) THEN [r1 EXCEPT !.terminated = TRUE] ELSE r1
    IN  [r2 EXCEPT !.hGenScatter = TRUE, !.hLate = @ \/ rd.terminated]

\* Mutant of generateScatterRay: the path is terminated as soon as one channel
\* of the throughput is zero.
generateScatterRay_AnyZero(sd, rayOrigin, smp, rd) ==
    LET w  == IF kUseBRDFSampling THEN smp.brdf.thp ELSE smp.hemi.fPi
        d  == IF kUseBRDFSampling THEN smp.brdf.dir ELSE smp.hemi.dir
        p  == IF kUseBRDFSampling THEN smp.brdf.pdf
              ELSE IF Min(sd.NdotV, Dot(sd.N, d)) < kMinCosTheta THEN 0
              ELSE HemisphereCosinePdf(sd.N, d)
        r1 == [rd EXCEPT !.origin = rayOrigin, !.direction = d,
                         !.thp = VMul(rd.thp, w),
                         !.pdf = IF kUseMIS THEN p ELSE 0,
                         !.normal = IF kUseMIS THEN sd.N ELSE @]
        r2 == IF \E i \in Channels : r1.thp[i] = 0
              THEN [r1 EXCEPT !.terminated = TRUE] ELSE r1
    IN  [r2 EXCEPT !.hGenScatter = TRUE, !.hLate = @ \/ rd.terminated]

\* Mutant of generateScatterRay: the pdf and the normal are stored whether or
\* not MIS is enabled.
generateScatterRay_StoreAlways(sd, rayOrigin, smp, rd) ==
    LET d  == IF kUseBRDFSampling THEN smp.brdf.dir ELSE smp.hemi.dir
        w  == IF kUseBRDFSampling THEN smp.brdf.thp ELSE smp.hemi.fPi
        p  == IF kUseBRDFSampling THEN smp.brdf.pdf
              ELSE IF Min(sd.NdotV, Dot(sd.N, d)) < kMinCosTheta THEN 0
              ELSE HemisphereCosinePdf(sd.N, d)
        r1 == [rd EXCEPT !.origin = rayOrigin, !.direction = d,
                         !.thp = VMul(rd.thp, w), !.pdf = p, !.normal = sd.N]
        r2 == IF AllZero(r1.thp) THEN [r1 EXCEPT !.terminated = TRUE] ELSE r1
    IN  [r2 EXCEPT !.hGenScatter = TRUE, !.hLate = @ \/ rd.terminated]

\* Mutant of generateScatterRay: the fallback keeps the cosine pdf of a
\* direction outside the positive hemisphere.
generateScatterRay_NoReset(sd, rayOrigin, smp, rd) ==
    LET d  == IF kUseBRDFSampling THEN smp.brdf.dir ELSE smp.hemi.dir
        w  == IF kUseBRDFSampling THEN smp.brdf.thp ELSE smp.hemi.fPi
        p  == IF kUseBRDFSampling THEN smp.brdf.pdf
              ELSE HemisphereCosinePdf(sd.N, d)
        r1 == [rd EXCEPT !.origin = rayOrigin, !.direction = d,
                         !.thp = VMul(rd.thp, w),
                         !.pdf = IF kUseMIS THEN p ELSE 0,
                         !.normal = IF kUseMIS THEN sd.N ELSE @]
        r2 == IF AllZero(r1.thp) THEN [r1 EXCEPT !.terminated = TRUE] ELSE r1
    IN  [r2 EXCEPT !.hGenScatter = TRUE, !.hLate = @ \/ rd.terminated]

\* Mutant of generateScatterRay: the flag is assigned the result of the test
\* instead of being set when the test succeeds.
generateScatterRay_AssignsFlag(sd, rayOrigin, smp, rd) ==
    LET d  == IF kUseBRDFSampling THEN smp.brdf.dir ELSE smp.hemi.dir
        w  == IF kUseBRDFSampling THEN smp.brdf.thp ELSE smp.hemi.fPi
        p  == IF kUseBRDFSampling THEN smp.brdf.pdf
              ELSE IF Min(sd.NdotV, Dot(sd.N, d)) < kMinCosTheta THEN 0
              ELSE HemisphereCosinePdf(sd.N, d)
        r1 == [rd EXCEPT !.origin = rayOrigin, !.direction = d,
                         !.thp = VMul(rd.thp, w),
                         !.pdf = IF kUseMIS THEN p ELSE 0,
                         !.normal = IF kUseMIS THEN sd.N ELSE @]
        r2 == [r1 EXCEPT !.terminated = AllZero(r1.thp)]
    IN  [r2 EXCEPT !.hGenScatter = TRUE, !.hLate = @ \/ rd.terminated]

\* generateScatterRay(pt, sd, rayOrigin, rayData); smp.brdf is the draw of
\* sampleBRDF(), smp.hemi the draw of the cosine-hemisphere fallback.
generateScatterRay(sd, rayOrigin, smp, rd) ==
    LET result == smp.brdf
        dir    == smp.hemi.dir
        pdf0   == HemisphereCosinePdf(sd.N, dir)
        NdotL  == Dot(sd.N, dir)
        pdf1   == IF Min(sd.NdotV, NdotL) < kMinCosTheta THEN 0 ELSE pdf0
        r1     == IF kUseBRDFSampling
                  THEN [rd EXCEPT !.origin    = rayOrigin,
                                  !.direction = result.dir,
                                  !.thp       = VMul(rd.thp, result.thp),
                                  !.pdf       = IF kUseMIS THEN result.pdf ELSE 0]
                  ELSE [rd EXCEPT !.origin    = rayOrigin,
                                  !.direction = dir,
                                  !.thp       = VMul(rd.thp, smp.hemi.fPi),
                                  !.pdf       = IF kUseMIS THEN pdf1 ELSE 0]
        r2     == IF kUseMIS THEN [r1 EXCEPT !.normal = sd.N] ELSE r1
        r3     == IF AllZero(r2.thp) THEN [r2 EXCEPT !.terminated = TRUE] ELSE r2
    IN  [r3 EXCEPT !.hGenScatter = TRUE, !.hLate = @ \/ rd.terminated]

\* Mutant of handleMiss: the flag is set only where radiance is added.
handleMiss_FlagInBranch(rd) ==
    LET dir       == rd.direction
        lightPdf  == FMul(evalEnvProbePdf(dir), getEnvLightSelectionPdf)
        misWeight == evalMIS(rd.pdf, lightPdf)
        Le        == VScale(evalEnvProbe(dir), misWeight)
    IN  IF kUseEnvLight /\ kUseMIS
        THEN [rd EXCEPT !.terminated = TRUE, !.Le = VMul(rd.thp, Le)]
        ELSE rd

\* Mutant of handleMiss: the environment radiance is added without its MIS
\* weight.
handleMiss_Unweighted(rd) ==
    LET r1 == [rd EXCEPT !.terminated = TRUE]
        Le == VScale(evalEnvProbe(r1.direction), MisOne)
    IN  IF kUseEnvLight /\ kUseMIS
        THEN [r1 EXCEPT !.Le = VMul(r1.thp, Le)]
        ELSE r1

\* handleMiss(pt, rayData)
handleMiss(rd) ==
    LET r1        == [rd EXCEPT !.terminated = TRUE]
        dir       == r1.direction
        lightPdf  == FMul(evalEnvProbePdf(dir), getEnvLightSelectionPdf)
        misWeight == evalMIS(r1.pdf, lightPdf)
        Le        == VScale(evalEnvProbe(dir), misWeight)
    IN  IF kUseEnvLight /\ kUseMIS
        THEN [r1 EXCEPT !.Le = VMul(r1.thp, Le)]
        ELSE r1

\* The MIS weight handleHit applies to the emission of the surface it hit.
emissiveMisWeight(hit, rd) ==
    IF kUseEmissiveSampler /\ kUseMIS
    THEN LET lightPdf == FMul(emissiveSampler_evalPdf(rd.origin, rd.normal, hit),
                              getEmissiveLightSelectionPdf)
         IN  evalMIS(rd.pdf, lightPdf)
    ELSE MisOne

\* Mutant of handleHitEmissive: the emission is added whenever emissive lights
\* are on, also when the emissive sampler alone accounts for it.
handleHitEmissive_Always(sd, hit, rd) ==
    IF kUseEmissiveLights /\ AnyPositive(sd.emissive)
    THEN [rd EXCEPT !.Le = VScale(VMul(rd.thp, sd.emissive),
                                  emissiveMisWeight(hit, rd))]
    ELSE rd

\* Mutant of handleHitEmissive: Le is set to zero when no emission is added.
handleHitEmissive_ZeroOtherwise(sd, hit, rd) ==
    LET computeEmissive == kUseEmissiveLights
                           /\ (~kUseEmissiveSampler
                               \/ (kUseEmissiveSampler /\ kUseMIS))
    IN  IF computeEmissive /\ AnyPositive(sd.emissive)
        THEN [rd EXCEPT !.Le = VScale(VMul(rd.thp, sd.emissive),
                                      emissiveMisWeight(hit, rd))]
        ELSE [rd EXCEPT !.Le = Zero3]

\* The emissive part of handleHit: the contribution of the surface that was
\* hit, written to rayData.Le.
handleHitEmissive(sd, hit, rd) ==
    LET computeEmissive == kUseEmissiveLights
                           /\ (~kUseEmissiveSampler
                               \/ (kUseEmissiveSampler /\ kUseMIS))
    IN  IF computeEmissive /\ AnyPositive(sd.emissive)
        THEN [rd EXCEPT !.Le = VScale(VMul(rd.thp, sd.emissive),
                                      emissiveMisWeight(hit, rd))]
        ELSE rd

\* Mutant of handleHit: the scatter ray is generated before the shadow ray.
handleHit_ScatterFirst(sd, hit, indirect, ls, smp, rd) ==
    LET r1 == handleHitEmissive(sd, hit, rd)
    IN  IF indirect /\ r1.pathLength < kMaxBounces
        THEN LET rayOrigin == sd.newRayOrigin
                 r2 == generateScatterRay(sd, rayOrigin, smp, r1)
                 r3 == generateShadowRay(sd, rayOrigin, ls, r2)
             IN  [r3 EXCEPT !.pathLength = @ + 1]
        ELSE r1

\* Mutant of handleHit: the bound on the path length is off by one.
handleHit_OffByOne(sd, hit, indirect, ls, smp, rd) ==
    LET r1 == handleHitEmissive(sd, hit, rd)
    IN  IF indirect /\ r1.pathLength <= kMaxBounces
        THEN LET rayOrigin == sd.newRayOrigin
                 r2 == generateShadowRay(sd, rayOrigin, ls, r1)
                 r3 == generateScatterRay(sd, rayOrigin, smp, r2)
             IN  [r3 EXCEPT !.pathLength = @ + 1]
        ELSE r1

\* Mutant of handleHit: the path length is not incremented.
handleHit_NoIncrement(sd, hit, indirect, ls, smp, rd) ==
    LET r1 == handleHitEmissive(sd, hit, rd)
    IN  IF indirect /\ r1.pathLength < kMaxBounces
        THEN LET rayOrigin == sd.newRayOrigin
                 r2 == generateShadowRay(sd, rayOrigin, ls, r1)
             IN  generateScatterRay(sd, rayOrigin, smp, r2)
        ELSE r1

\* Mutant of handleHit: the path length is incremented on every call.
handleHit_IncrementAlways(sd, hit, indirect, ls, smp, rd) ==
    LET r1 == handleHitEmissive(sd, hit, rd)
        r4 == IF indirect /\ r1.pathLength < kMaxBounces
              THEN LET rayOrigin == sd.newRayOrigin
                       r2 == generateShadowRay(sd, rayOrigin, ls, r1)
                   IN  generateScatterRay(sd, rayOrigin, smp, r2)
              ELSE r1
    IN  [r4 EXCEPT !.pathLength = @ + 1]

\* handleHit(pt, sd, hit, computeIndirect, rayData)
handleHit(sd, hit, indirect, ls, smp, rd) ==
    LET r1 == handleHitEmissive(sd, hit, rd)
    IN  IF indirect /\ r1.pathLength < kMaxBounces
        THEN LET rayOrigin == sd.newRayOrigin
                 r2 == generateShadowRay(sd, rayOrigin, ls, r1)
                 r3 == generateScatterRay(sd, rayOrigin, smp, r2)
             IN  [r3 EXCEPT !.pathLength = @ + 1]
        ELSE r1

\* The draws generateScatterRay can make under the configuration: only the
\* branch that is compiled in draws.
ScatterDraws ==
    IF kUseBRDFSampling
    THEN { [brdf |-> r, hemi |-> [dir |-> 1, fPi |-> Zero3]] : r \in BRDFSamples }
    ELSE { [brdf |-> [dir |-> 1, thp |-> Zero3, pdf |-> 0], hemi |-> h] :
              h \in HemisphereSamples }

\* ScatterRayDataPacked::pack(rayData)
pack(rd) == [rd EXCEPT !.normal = encodeNormal(@)]

\* ScatterRayDataPacked::unpack()
unpack(packedData) == packedData

\* TraceRay() of a scatter ray: the closest-hit program runs handleHit on the
\* payload it unpacks, the miss program runs handleMiss, and either packs the
\* result again.
TraceRayScatter(packedData, outcome, sd, hit, ls, smp) ==
    IF outcome = "hit"
    THEN pack(handleHit(sd, hit, computeIndirect, ls, smp, unpack(packedData)))
    ELSE pack(handleMiss(unpack(packedData)))

\* Mutant of traceScatterRay: the ray is not logged.
traceScatterRay_NoLog(rd, outcome, sd, hit, ls, smp, count) ==
    LET packedData0 == pack(rd)
        packedData1 == TraceRayScatter(packedData0, outcome, sd, hit, ls, smp)
    IN  [rayData |-> unpack(packedData1), traceCount |-> count]

\* traceScatterRay(rayData): the payload and the trace counter afterwards.
traceScatterRay(rd, outcome, sd, hit, ls, smp, count) ==
    LET packedData0 == pack(rd)
        packedData1 == TraceRayScatter(packedData0, outcome, sd, hit, ls, smp)
    IN  [rayData |-> unpack(packedData1), traceCount |-> logTraceRay(count)]

---------------------------------------------------------------------------
(* The core functions called in any order on one payload *)

---------------------------------------------------------------------------
(* SceneRenderPass.cpp *)

\* The depth textures a render graph can supply, and the one the pass creates.
DepthTextures == {"depthA", "depthB"}

OwnDepth == "ownDepth"

ColorTextures == {"colorA", "colorB"}

AllTextures ==
    DepthTextures \cup {OwnDepth} \cup ColorTextures \cup {"normals", "motionVecs"}

\* RenderData of one execute call: the textures the graph bound to the fields
\* of the pass; the depth field is optional.
RenderDatas ==
    [depth : DepthTextures \cup {"null"}, color : ColorTextures,
     normals : {"normals"}, motionVecs : {"motionVecs"}]

\* Fbo::create()
Fbo_create == [depthStencil |-> "null", color |-> <<"null", "null", "null">>]

\* Texture::create2D(..., ResourceFormat::D32Float, ...)
Texture_create2D == OwnDepth

\* The pass as its constructor leaves it; clearFlags is the value the class
\* declaration gives mClearFlags.
SceneRenderPass_create(clearFlags) ==
    [ mpFbo           |-> Fbo_create,
      mpState         |-> [depthStencilState |-> "null", fbo |-> "null"],
      mClearFlags     |-> clearFlags,
      mpSceneRenderer |-> "null" ]

\* SceneRenderPass::initDepth(pRenderData)
initDepth(pRenderData, p) ==
    LET pTexture == pRenderData.depth
    IN  IF pTexture # "null"
        THEN [p EXCEPT !.mpState.depthStencilState = "mpDsNoDepthWrite",
                       !.mClearFlags = {"Color"},
                       !.mpFbo.depthStencil = pTexture]
        ELSE LET p1 == [p EXCEPT !.mpState.depthStencilState = "null",
                                 !.mClearFlags = {"Color", "Depth"}]
             IN  IF p1.mpFbo.depthStencil = "null"
                 THEN [p1 EXCEPT !.mpFbo.depthStencil = Texture_create2D]
                 ELSE p1

\* RenderContext::clearRtv(view of texture t, vec4(0))
clearRtv(t, tex) == [tex EXCEPT ![t] = "cleared"]

\* SceneRenderer::renderScene(pContext) under graphics state st: the colour
\* targets of the bound FBO are drawn to, and its depth target too unless the
\* depth-stencil state masks depth writes.
renderScene(st, fbo, tex) ==
    [t \in AllTextures |->
        IF t \in {fbo.color[1], fbo.color[2], fbo.color[3]} THEN "drawn"
        ELSE IF t = fbo.depthStencil /\ st.depthStencilState = "null" THEN "drawn"
        ELSE tex[t]]

\* SceneRenderPass::execute(pContext, pRenderData): the pass and the textures
\* afterwards.
execute(pRenderData, p, tex) ==
    LET p1   == initDepth(pRenderData, p)
        p2   == [p1 EXCEPT !.mpFbo.color = <<pRenderData.color,
                                             pRenderData.normals,
                                             pRenderData.motionVecs>>]
        tex1 == clearRtv(p2.mpFbo.color[2], tex)
        tex2 == clearRtv(p2.mpFbo.color[3], tex1)
    IN  IF p2.mpSceneRenderer # "null"
        THEN LET p3 == [p2 EXCEPT !.mpState.fbo = "mpFbo"]
             IN  [pass |-> p3, textures |-> renderScene(p3.mpState, p3.mpFbo, tex2)]
        ELSE [pass |-> p2, textures |-> tex2]

\* SceneRenderPass::setScene(pScene)
setScene(pScene, p) ==
    LET p1 == [p EXCEPT !.mpSceneRenderer = "null"]
    IN  IF pScene # "null"
        THEN [p1 EXCEPT !.mpSceneRenderer = pScene]
        ELSE p1

\* A pass that has just been created, and textures nothing has touched.
PassCreated(clearFlags) ==
    /\ pass = SceneRenderPass_create(clearFlags)
    /\ textures = [t \in AllTextures |-> "initial"]
    /\ passLast = [op |-> "none"]
    /\ nExecute = 0

---------------------------------------------------------------------------
(* Concurrent lanes *)

\* The lanes of the dispatch that are modelled: two concurrent paths.
Lanes == {1, 2}

\* Each lane has its ScatterRayData, created by its raygen program, and the
\* ShadowRayData that traceShadowRay declares as a local variable.
NoLanes ==
    [i \in Lanes |-> [scatter |-> ScatterRayData_create,
                      shadow  |-> [visible |-> FALSE]]]

\* No location written yet.
NoWriters ==
    [scatter |-> [i \in Lanes |-> {}], shadow |-> [i \in Lanes |-> {}],
     stats |-> {}]

\* No trace call made yet.
NoCalls == [scatter |-> 0, shadowValid |-> 0, shadowDummy |-> 0]

\* The record of calls after one more traceShadowRay call.
ShadowCall(valid) ==
    IF valid THEN [calls EXCEPT !.shadowValid = @ + 1]
    ELSE [calls EXCEPT !.shadowDummy = @ + 1]

Configurations ==
    /\ kUseMIS \in BOOLEAN
    /\ kUseBRDFSampling \in BOOLEAN
    /\ kUseEnvLight \in BOOLEAN
    /\ kUseEmissiveLights \in BOOLEAN
    /\ kUseEmissiveSampler \in BOOLEAN
    /\ computeIndirect \in BOOLEAN

Init ==
    /\ Configurations
    /\ rayData = ScatterRayData_create
    /\ traceCount = 0
    /\ last = [op |-> "none"]
    /\ pc = "api"
    /\ depth = 0
    /\ nSegments = 0
    /\ calls = NoCalls
    /\ lanes = NoLanes
    /\ writers = NoWriters
    /\ PassCreated({"Color", "Depth"})

GenerateShadowRay ==
    \E sd \in ShadingPoints, ls \in LightSamples :
        /\ rayData' = generateShadowRay(sd, sd.newRayOrigin, ls, ClearHistory(rayData))
        /\ last' = [op |-> "generateShadowRay", sd |-> sd, ls |-> ls]
        /\ UNCHANGED <<config, laneVars, passVars, traceCount, pc, depth, nSegments, calls>>

GenerateScatterRay ==
    \E sd \in ShadingPoints, smp \in ScatterDraws :
        /\ rayData' = generateScatterRay(sd, sd.newRayOrigin, smp, ClearHistory(rayData))
        /\ last' = [op |-> "generateScatterRay", sd |-> sd]
        /\ UNCHANGED <<config, laneVars, passVars, traceCount, pc, depth, nSegments, calls>>

\* What the history keeps of a handleHit call: the light sample only when the
\* call drew one.
HitRecord(h, ls, rd) ==
    [op |-> "handleHit", sd |-> h.sd, hit |-> h.hit,
     ls |-> IF rd.hGenShadow THEN ls ELSE [dir |-> 0]]

HandleHit ==
    \E h \in SurfaceHits, ls \in LightSamples, smp \in ScatterDraws :
        /\ rayData' = handleHit(h.sd, h.hit, computeIndirect, ls, smp,
                                ClearHistory(rayData))
        /\ last' = HitRecord(h, ls, rayData')
        /\ UNCHANGED <<config, laneVars, passVars, traceCount, pc, depth, nSegments, calls>>

HandleMiss ==
    /\ rayData' = handleMiss(ClearHistory(rayData))
    /\ last' = [op |-> "handleMiss"]
    /\ UNCHANGED <<config, laneVars, passVars, traceCount, pc, depth, nSegments, calls>>

Next ==
    \/ GenerateShadowRay
    \/ GenerateScatterRay
    \/ HandleHit
    \/ HandleMiss

Spec == Init /\ [][Next]_vars

---------------------------------------------------------------------------
(* One path driven by the raygen loop: generateScatterRay for the primary   *)
(* hit, then per segment traceScatterRay followed by the trace of the       *)
(* shadow ray handleHit left in the payload, until the payload is           *)
(* terminated or the bounce limit is reached.                               *)

InitPath ==
    /\ Configurations
    /\ rayData = ScatterRayData_create
    /\ traceCount = 0
    /\ last = [op |-> "none"]
    /\ pc = "primary"
    /\ depth = 0
    /\ nSegments = 0
    /\ calls = NoCalls
    /\ lanes = NoLanes
    /\ writers = NoWriters
    /\ PassCreated({"Color", "Depth"})

\* The last value of the loop counter for which a segment is traced.
LoopLimit == IF computeIndirect THEN kMaxBounces ELSE 0

\* The loop condition.
Continue == ~rayData.terminated /\ depth <= LoopLimit

\* Whether the hit program of this iteration left a shadow ray to trace.
ShadowPending == ~rayData.terminated /\ computeIndirect /\ depth < kMaxBounces

RayGenPrimary ==
    /\ pc = "primary"
    /\ \E sd \in ShadingPoints, smp \in ScatterDraws :
        /\ rayData' = generateScatterRay(sd, sd.newRayOrigin, smp, ClearHistory(rayData))
        /\ last' = [op |-> "generateScatterRay", sd |-> sd]
    /\ pc' = "loop"
    /\ UNCHANGED <<config, laneVars, passVars, traceCount, depth, nSegments, calls>>

\* Arguments of the hit program when the ray misses: it does not run.
NoHit == [sd |-> sdPlain, hit |-> 1]

NoLight == [dir |-> 1, rayDir |-> 1, rayDistance |-> 1, Li |-> Zero3]

NoDraw == [brdf |-> [dir |-> 1, thp |-> Zero3, pdf |-> 0],
           hemi |-> [dir |-> 1, fPi |-> Zero3]]

\* What the history keeps of a traceScatterRay call.
TraceRecord(outcome, h, ls, rd) ==
    IF outcome = "hit"
    THEN [op |-> "traceScatterRay", outcome |-> outcome, sd |-> h.sd, hit |-> h.hit,
          ls |-> IF rd.hGenShadow THEN ls ELSE [dir |-> 0]]
    ELSE [op |-> "traceScatterRay", outcome |-> outcome]

TraceScatter(outcome, h, ls, smp) ==
    LET r == traceScatterRay(ClearHistory(rayData), outcome, h.sd, h.hit, ls, smp,
                             traceCount)
    IN  /\ rayData' = r.rayData
        /\ traceCount' = r.traceCount
        /\ last' = TraceRecord(outcome, h, ls, r.rayData)
        /\ nSegments' = nSegments + (IF r.rayData.hGenScatter THEN 1 ELSE 0)
        /\ calls' = [calls EXCEPT !.scatter = @ + 1]

RayGenScatterHit ==
    /\ pc = "loop"
    /\ Continue
    /\ \E h \in SurfaceHits, ls \in LightSamples, smp \in ScatterDraws :
        TraceScatter("hit", h, ls, smp)
    /\ pc' = "shadow"
    /\ UNCHANGED <<config, laneVars, passVars, depth>>

RayGenScatterMiss ==
    /\ pc = "loop"
    /\ Continue
    /\ TraceScatter("miss", NoHit, NoLight, NoDraw)
    /\ pc' = "shadow"
    /\ UNCHANGED <<config, laneVars, passVars, depth>>

RayGenShadow ==
    /\ pc = "shadow"
    /\ ShadowPending
    /\ LET valid == AnyPositive(rayData.Lr)
           ray   == ShadowRayDesc(rayData.origin, rayData.shadowRay[1],
                                  rayData.shadowRay[2], valid)
       IN  \E outcome \in ShadowOutcomes(ray) :
             LET r == traceShadowRay(rayData.origin, rayData.shadowRay[1],
                                     rayData.shadowRay[2], valid, outcome, traceCount)
             IN  /\ traceCount' = r.traceCount
                 /\ last' = [op |-> "traceShadowRay", valid |-> valid,
                             outcome |-> outcome, ret |-> r.ret,
                             count0 |-> traceCount]
                 /\ calls' = ShadowCall(valid)
    /\ pc' = "loop"
    /\ depth' = depth + 1
    /\ UNCHANGED <<config, laneVars, passVars, rayData, nSegments>>

RayGenNoShadow ==
    /\ pc = "shadow"
    /\ ~ShadowPending
    /\ pc' = "loop"
    /\ depth' = depth + 1
    /\ UNCHANGED <<config, laneVars, passVars, rayData, traceCount, last, nSegments, calls>>

RayGenDone ==
    /\ pc = "loop"
    /\ ~Continue
    /\ pc' = "done"
    /\ UNCHANGED <<config, laneVars, passVars, rayData, traceCount, last, depth, nSegments, calls>>

NextPath ==
    \/ RayGenPrimary
    \/ RayGenScatterHit
    \/ RayGenScatterMiss
    \/ RayGenShadow
    \/ RayGenNoShadow
    \/ RayGenDone

SpecPath == InitPath /\ [][NextPath]_vars

\* The loop is a sequential program: it takes its next step whenever it has one.
FairSpecPath == SpecPath /\ WF_vars(NextPath)

---------------------------------------------------------------------------
(* traceShadowRay and traceScatterRay called in any order, with any         *)
(* arguments, on one payload                                                *)

InitTrace ==
    /\ Configurations
    /\ rayData = ScatterRayData_create
    /\ traceCount = 0
    /\ last = [op |-> "none"]
    /\ pc = "trace"
    /\ depth = 0
    /\ nSegments = 0
    /\ calls = NoCalls
    /\ lanes = NoLanes
    /\ writers = NoWriters
    /\ PassCreated({"Color", "Depth"})

TotalCalls == calls.scatter + calls.shadowValid + calls.shadowDummy

TraceShadowRay ==
    /\ TotalCalls < MaxCalls
    /\ \E origin \in {0, 1}, dir \in Dirs, distance \in {1, 2}, valid \in BOOLEAN :
         \E outcome \in ShadowOutcomes(ShadowRayDesc(origin, dir, distance, valid)) :
            LET r == traceShadowRay(origin, dir, distance, valid, outcome, traceCount)
            IN  /\ traceCount' = r.traceCount
                /\ last' = [op |-> "traceShadowRay", valid |-> valid,
                            outcome |-> outcome, ret |-> r.ret,
                            count0 |-> traceCount]
                /\ calls' = ShadowCall(valid)
    /\ UNCHANGED <<config, laneVars, passVars, rayData, pc, depth, nSegments>>

TraceScatterRay ==
    /\ TotalCalls < MaxCalls
    /\ \E outcome \in {"hit", "miss"}, h \in SurfaceHits, ls \in LightSamples,
          smp \in ScatterDraws :
            TraceScatter(outcome, h, ls, smp)
    /\ UNCHANGED <<config, laneVars, passVars, pc, depth>>

NextTrace ==
    \/ TraceShadowRay
    \/ TraceScatterRay

SpecTrace == InitTrace /\ [][NextTrace]_vars

---------------------------------------------------------------------------
(* Two paths traced concurrently: the trace calls of the two lanes          *)
(* interleave in any order.  A call is one step: control returns to the     *)
(* lane only when the hit or miss program has completed.  The statistics    *)
(* counter is the global counter logTraceRay increments, in one step.       *)

\* Mutant of PayloadOf: the payloads are static variables, one for all lanes.
PayloadOf_Static(lane) == 1

\* The storage a lane's trace call works on: the ScatterRayData its caller
\* passes as the inout argument, and the ShadowRayData on its own stack.
PayloadOf(lane) == lane

LaneTraceShadowRay ==
    /\ TotalCalls < MaxLaneCalls
    /\ \E i \in Lanes, origin \in {0, 1}, dir \in Dirs, distance \in {1, 2},
          valid \in BOOLEAN :
         \E outcome \in ShadowOutcomes(ShadowRayDesc(origin, dir, distance, valid)) :
            LET k   == PayloadOf(i)
                ray == ShadowRayDesc(origin, dir, distance, valid)
                r   == traceShadowRay(origin, dir, distance, valid, outcome, traceCount)
            IN  /\ lanes' = [lanes EXCEPT ![k].shadow =
                                 TraceRayShadow(ray, [visible |-> FALSE], outcome)]
                /\ traceCount' = r.traceCount
                /\ writers' = [writers EXCEPT
                                  !.shadow[k] = @ \cup {i},
                                  !.stats = IF valid THEN @ \cup {i} ELSE @]
                /\ last' = [op |-> "traceShadowRay", lane |-> i]
                /\ calls' = ShadowCall(valid)
    /\ UNCHANGED <<config, passVars, rayData, pc, depth, nSegments>>

LaneTraceScatterRay ==
    /\ TotalCalls < MaxLaneCalls
    /\ \E i \in Lanes, outcome \in {"hit", "miss"}, h \in SurfaceHits,
          ls \in LightSamples, smp \in ScatterDraws :
            LET k == PayloadOf(i)
                r == traceScatterRay(ClearHistory(lanes[k].scatter), outcome,
                                     h.sd, h.hit, ls, smp, traceCount)
            IN  /\ lanes' = [lanes EXCEPT ![k].scatter = r.rayData]
                /\ traceCount' = r.traceCount
                /\ writers' = [writers EXCEPT !.scatter[k] = @ \cup {i},
                                              !.stats = @ \cup {i}]
                /\ last' = [op |-> "traceScatterRay", lane |-> i]
                /\ calls' = [calls EXCEPT !.scatter = @ + 1]
    /\ UNCHANGED <<config, passVars, rayData, pc, depth, nSegments>>

NextLanes ==
    \/ LaneTraceShadowRay
    \/ LaneTraceScatterRay

SpecLanes == InitTrace /\ [][NextLanes]_vars

---------------------------------------------------------------------------
(* The render pass driven by a render graph: execute once per frame with    *)
(* the render data of the frame, setScene at any time between frames.       *)

tracerVars == <<config, laneVars, rayData, traceCount, last, pc, depth,
                nSegments, calls>>

InitPass ==
    /\ kUseMIS = FALSE
    /\ kUseBRDFSampling = FALSE
    /\ kUseEnvLight = FALSE
    /\ kUseEmissiveLights = FALSE
    /\ kUseEmissiveSampler = FALSE
    /\ computeIndirect = FALSE
    /\ rayData = ScatterRayData_create
    /\ traceCount = 0
    /\ last = [op |-> "none"]
    /\ pc = "pass"
    /\ depth = 0
    /\ nSegments = 0
    /\ calls = NoCalls
    /\ lanes = NoLanes
    /\ writers = NoWriters
    /\ \E clearFlags \in {{"Color"}, {"Color", "Depth"}} : PassCreated(clearFlags)

Execute ==
    /\ nExecute < MaxExecutes
    /\ \E pRenderData \in RenderDatas :
         LET r == execute(pRenderData, pass, textures)
         IN  /\ pass' = r.pass
             /\ textures' = r.textures
             /\ passLast' = [op |-> "execute", pRenderData |-> pRenderData]
    /\ nExecute' = nExecute + 1
    /\ UNCHANGED tracerVars

SetScene ==
    /\ \E pScene \in {"null", "scene"} : pass' = setScene(pScene, pass)
    /\ passLast' = [op |-> "setScene"]
    /\ UNCHANGED <<textures, nExecute>>
    /\ UNCHANGED tracerVars

NextPass ==
    \/ Execute
    \/ SetScene

SpecPass == InitPass /\ [][NextPass]_vars

---------------------------------------------------------------------------
(* Properties *)

\* The last call of a trace of the scatter ray ended in the miss program.
Missed == last.op = "traceScatterRay" /\ last.outcome = "miss"

\* C1: once the payload is terminated, no later step of the path generates or
\* dispatches a ray: no generate function runs on a terminated payload, and
\* from a terminated payload the loop changes neither the payload nor the
\* trace counter nor the record of the last ray operation.
C1_NoRayAfterTerminated ==
    [][ /\ ~rayData'.hLate
        /\ rayData.terminated =>
              (rayData' = rayData /\ traceCount' = traceCount /\ last' = last)
      ]_vars

\* A path that handleHit terminated through generateScatterRay, with the shadow
\* ray of that hit still in the payload, has run to its end.
C1_Witness ==
    /\ pc = "done"
    /\ rayData.terminated
    /\ last.op = "traceScatterRay"
    /\ last.outcome = "hit"
    /\ rayData.hGenShadow

\* C2: handleMiss leaves the payload terminated, whatever the payload and the
\* configuration.
C2_MissTerminates == last.op = "handleMiss" => rayData.terminated

\* handleMiss has run in a configuration that adds no radiance.
C2_Witness ==
    /\ last.op = "handleMiss"
    /\ ~(kUseEnvLight /\ kUseMIS)
    /\ rayData.terminated
    /\ rayData.pathLength > 0

\* C3: after generateScatterRay, a throughput that is zero in every channel
\* comes with the terminated flag, in either sampling branch.
C3_ZeroThroughputTerminates ==
    (rayData.hGenScatter /\ AllZero(rayData.thp)) => rayData.terminated

\* generateScatterRay has driven the throughput to zero in the fallback branch.
C3_Witness ==
    /\ last.op = "generateScatterRay"
    /\ ~kUseBRDFSampling
    /\ AllZero(rayData.thp)
    /\ rayData.terminated

\* C4: a handleHit call entered at the bounce limit, or with computeIndirect
\* false, generates no ray and leaves every field but Le as it was.
C4_NoSegmentAtLimit ==
    [][ (last'.op = "handleHit"
         /\ (rayData.pathLength >= kMaxBounces \/ ~computeIndirect)) =>
            /\ ~rayData'.hGenShadow
            /\ ~rayData'.hGenScatter
            /\ rayData'.shadowRay = rayData.shadowRay
            /\ rayData'.Lr = rayData.Lr
            /\ rayData'.origin = rayData.origin
            /\ rayData'.direction = rayData.direction
            /\ rayData'.thp = rayData.thp
            /\ rayData'.pdf = rayData.pdf
            /\ rayData'.normal = rayData.normal
            /\ rayData'.pathLength = rayData.pathLength
            /\ rayData'.terminated = rayData.terminated
      ]_vars

\* handleHit has run at the bounce limit with indirect illumination enabled,
\* on a payload that is not terminated.
C4_Witness ==
    /\ last.op = "handleHit"
    /\ computeIndirect
    /\ rayData.pathLength = kMaxBounces
    /\ ~rayData.hGenScatter
    /\ ~rayData.terminated

\* C5: a traceShadowRay call with valid == false returns false and leaves the
\* trace counter as it was, although the dispatch ran the miss program.
C5_DummyShadowRay ==
    (last.op = "traceShadowRay" /\ ~last.valid) =>
        (last.ret = FALSE /\ traceCount = last.count0)

\* A dummy shadow ray was dispatched, its miss program ran, and the call
\* returned false.
C5_Witness ==
    /\ last.op = "traceShadowRay"
    /\ ~last.valid
    /\ last.outcome = "miss"
    /\ last.ret = FALSE
    /\ traceCount > 0

\* C6: every path finishes, and handleHit generates a next segment at most
\* kMaxBounces times on the way.
C6_PathFinishes == <>(pc = "done") /\ [](nSegments <= kMaxBounces)

\* A path has finished after handleHit generated kMaxBounces segments, none of
\* which terminated it.
C6_Witness ==
    /\ pc = "done"
    /\ nSegments = kMaxBounces
    /\ ~rayData.terminated

\* C7 as stated: a finished path has reached the bounce limit or its scatter
\* ray has missed the scene.
C7_EndsByLimitOrMiss ==
    pc = "done" => (Missed \/ rayData.pathLength >= kMaxBounces)

\* C7 amended: a finished path has reached the bounce limit, or its scatter
\* ray has missed the scene, or generateScatterRay has terminated it with a
\* throughput of zero in every channel, or indirect illumination is disabled
\* and the path ended at its first hit.
C7_EndsByLimitMissOrZeroThroughput ==
    pc = "done" =>
        \/ Missed
        \/ rayData.pathLength >= kMaxBounces
        \/ (rayData.terminated /\ AllZero(rayData.thp))
        \/ (~computeIndirect /\ last.op = "traceScatterRay" /\ last.outcome = "hit")

\* A path has ended below the bounce limit and without a miss, because
\* generateScatterRay found the throughput zero.
C7_Witness ==
    /\ pc = "done"
    /\ computeIndirect
    /\ ~Missed
    /\ rayData.pathLength < kMaxBounces
    /\ rayData.terminated
    /\ AllZero(rayData.thp)

\* The tentative contribution generateShadowRay computes for light sample ls
\* at shading point sd under throughput thp.
ShadowContribution(sd, ls, thp) ==
    IF AnyPositive(ls.Li)
    THEN VMul(VMul(evalBRDFCosine(sd, ls.dir), ls.Li), thp)
    ELSE Zero3

\* C8: when handleHit generates a next segment, the Lr it leaves in the
\* payload is weighted by the throughput the payload held on entry.
C8_LrWeightedByEntryThroughput ==
    [][ (last'.op = "handleHit" /\ rayData'.hGenScatter) =>
            /\ rayData'.hGenShadow
            /\ rayData'.Lr = ShadowContribution(last'.sd, last'.ls, rayData.thp)
      ]_vars

\* handleHit has generated a segment whose update changed the throughput, and
\* the Lr in the payload is not what the updated throughput would give.
C8_Witness ==
    /\ last.op = "handleHit"
    /\ rayData.hGenScatter
    /\ AnyPositive(rayData.Lr)
    /\ rayData.Lr # ShadowContribution(last.sd, last.ls, rayData.thp)

\* The condition under which handleHit resolves the emission of shading
\* point sd.
EmissiveResolved(sd) ==
    /\ kUseEmissiveLights
    /\ (~kUseEmissiveSampler \/ (kUseEmissiveSampler /\ kUseMIS))
    /\ AnyPositive(sd.emissive)

\* The weight the emission gets: 1, or the MIS weight of the stored pdf
\* against the pdf of the emissive sampler for the hit.
EmissiveWeight(hit, rd) ==
    IF kUseEmissiveSampler /\ kUseMIS
    THEN evalMIS(rd.pdf,
                 FMul(emissiveSampler_evalPdf(rd.origin, rd.normal, hit),
                      getEmissiveLightSelectionPdf))
    ELSE MisOne

\* C9: handleHit writes Le exactly when emission is resolved, and then writes
\* throughput x emission x weight.
C9_EmissiveContribution ==
    [][ last'.op = "handleHit" =>
            rayData'.Le =
                IF EmissiveResolved(last'.sd)
                THEN VScale(VMul(rayData.thp, last'.sd.emissive),
                            EmissiveWeight(last'.hit, rayData))
                ELSE rayData.Le
      ]_vars

\* handleHit has hit an emissive surface with the emissive sampler and MIS
\* enabled, and the emission it wrote carries a weight below 1.
C9_Witness ==
    /\ last.op = "handleHit"
    /\ kUseEmissiveLights /\ kUseEmissiveSampler /\ kUseMIS
    /\ last.sd = sdEmissive
    /\ AnyPositive(rayData.Le)
    /\ rayData.Le[1] < MisOne

\* C10: handleMiss changes no field but terminated, and Le when an
\* environment light exists and MIS is enabled; Le is then throughput x
\* environment radiance x MIS weight of the stored pdf against the
\* environment pdf.
C10_MissContribution ==
    [][ last'.op = "handleMiss" =>
            LET dir == rayData.direction
                w   == evalMIS(rayData.pdf,
                               FMul(evalEnvProbePdf(dir), getEnvLightSelectionPdf))
                Le  == IF kUseEnvLight /\ kUseMIS
                       THEN VMul(rayData.thp, VScale(evalEnvProbe(dir), w))
                       ELSE rayData.Le
            IN  Fields(rayData') =
                    [Fields(rayData) EXCEPT !.terminated = TRUE, !.Le = Le]
      ]_vars

\* handleMiss has run with throughput 1 and stored pdf 1 in a direction whose
\* environment pdf is not zero: Le is the weighted radiance, not the raw one.
C10_Witness ==
    /\ last.op = "handleMiss"
    /\ kUseEnvLight /\ kUseMIS
    /\ rayData.thp = One3
    /\ rayData.pdf = 1
    /\ rayData.Le = VScale(evalEnvProbe(rayData.direction),
                           evalMIS(1, evalEnvProbePdf(rayData.direction)))
    /\ rayData.Le # VScale(evalEnvProbe(rayData.direction), MisOne)

\* C11: the trace counter equals the number of traceScatterRay calls plus the
\* number of traceShadowRay calls made with valid == true; dummy shadow calls
\* add nothing.
C11_TraceCounter == traceCount = calls.scatter + calls.shadowValid

\* Calls of all three kinds have been made, the last one a scatter ray.
C11_Witness ==
    /\ calls.scatter > 0
    /\ calls.shadowValid > 0
    /\ calls.shadowDummy > 0
    /\ last.op = "traceScatterRay"
    /\ traceCount = 2

\* C12: a traceShadowRay call with valid == true returns true exactly when the
\* miss program ran for its dispatch; an accepted occluder leaves the payload
\* at its initial value, not visible.
C12_VisibleIffMiss ==
    (last.op = "traceShadowRay" /\ last.valid) =>
        (last.ret <=> last.outcome = "miss")

\* A valid shadow ray found an occluder and the call returned false, after an
\* earlier valid shadow ray had been traced.
C12_Witness ==
    /\ last.op = "traceShadowRay"
    /\ last.valid
    /\ last.outcome = "hit"
    /\ last.ret = FALSE
    /\ calls.shadowValid >= 2

\* A location is owned when at most one lane has written it.
Owned(ws) == Cardinality(ws) <= 1

SampledPdfs(sd, rd0, rd1) ==
    IF kUseBRDFSampling
    THEN { r.pdf : r \in { b \in BRDFSamples :
                              /\ b.dir = rd1.direction
                              /\ VMul(rd0.thp, b.thp) = rd1.thp } }
    ELSE { IF Min(sd.NdotV, Dot(sd.N, rd1.direction)) < kMinCosTheta THEN 0
           ELSE HemisphereCosinePdf(sd.N, rd1.direction) }

\* C14: generateScatterRay, called directly or by handleHit, stores the pdf of
\* the sampled direction and the shading normal when MIS is enabled, and
\* otherwise stores a pdf of zero and leaves the normal as it was.
C14_MisOnlyFields ==
    [][ rayData'.hGenScatter =>
            IF kUseMIS
            THEN /\ rayData'.normal = last'.sd.N
                 /\ rayData'.pdf \in SampledPdfs(last'.sd, rayData, rayData')
            ELSE /\ rayData'.normal = rayData.normal
                 /\ rayData'.pdf = 0
      ]_vars

\* Without MIS, the fallback branch sampled a direction whose cosine pdf is
\* not zero, and the payload holds a pdf of zero and no shading normal.
C14_Witness ==
    /\ last.op = "generateScatterRay"
    /\ ~kUseMIS /\ ~kUseBRDFSampling
    /\ last.sd.NdotV >= kMinCosTheta
    /\ rayData.direction >= kMinCosTheta
    /\ HemisphereCosinePdf(last.sd.N, rayData.direction) > 0
    /\ rayData.pdf = 0
    /\ rayData.normal # last.sd.N

\* handleHit evaluates the MIS weight of the emission at shading point sd.
EvaluatesMisWeight(sd) ==
    /\ kUseEmissiveLights /\ kUseEmissiveSampler /\ kUseMIS
    /\ AnyPositive(sd.emissive)

C16_PathLength ==
    /\ [][ rayData'.pathLength =
              IF /\ last'.op = "handleHit"
                 /\ computeIndirect
                 /\ rayData.pathLength < kMaxBounces
              THEN rayData.pathLength + 1
              ELSE rayData.pathLength
         ]_vars
    /\ [](rayData.pathLength <= kMaxBounces)

\* handleHit has generated the segment that takes the path length to the
\* limit.
C16_Witness ==
    /\ last.op = "handleHit"
    /\ rayData.hGenScatter
    /\ rayData.pathLength = kMaxBounces

\* C17: in the cosine-hemisphere fallback the stored pdf is zero whenever
\* min(NdotV, NdotL) < kMinCosTheta; otherwise, with MIS enabled, it is the
\* cosine pdf of the sampled direction.
C17_FallbackPdf ==
    [][ (rayData'.hGenScatter /\ ~kUseBRDFSampling) =>
            LET NdotL == Dot(last'.sd.N, rayData'.direction)
            IN  IF Min(last'.sd.NdotV, NdotL) < kMinCosTheta
                THEN rayData'.pdf = 0
                ELSE kUseMIS =>
                        rayData'.pdf =
                            HemisphereCosinePdf(last'.sd.N, rayData'.direction)
      ]_vars

\* With MIS enabled, the fallback sampled a direction in the positive
\* hemisphere at a point seen from below the threshold: the cosine pdf of the
\* direction is not zero and the stored pdf is.
C17_Witness ==
    /\ last.op = "generateScatterRay"
    /\ kUseMIS /\ ~kUseBRDFSampling
    /\ last.sd.NdotV < kMinCosTheta
    /\ Dot(last.sd.N, rayData.direction) >= kMinCosTheta
    /\ HemisphereCosinePdf(last.sd.N, rayData.direction) > 0
    /\ rayData.pdf = 0

\* C18: generateShadowRay leaves the trace counter and the record of trace
\* calls as they were and writes no payload field but shadowRay and Lr; the
\* descriptor is that of the light sample, and Lr is zero in every channel
\* when the sample is invalid, also when handleHit makes the call.
C18_ShadowRayGeneratedNotTraced ==
    [][ /\ last'.op = "generateShadowRay" =>
              /\ traceCount' = traceCount
              /\ calls' = calls
              /\ Fields(rayData') =
                    [Fields(rayData) EXCEPT
                        !.shadowRay = <<last'.ls.rayDir, last'.ls.rayDistance>>,
                        !.Lr = rayData'.Lr]
        /\ (rayData'.hGenShadow /\ ~AnyPositive(last'.ls.Li)) =>
              AllZero(rayData'.Lr)
      ]_vars

\* generateShadowRay has drawn an invalid light sample on a path that is under
\* way and whose throughput is not zero: the payload holds the descriptor of
\* the sample and a contribution of zero, and no ray has been traced.
C18_Witness ==
    /\ last.op = "generateShadowRay"
    /\ ~AnyPositive(last.ls.Li)
    /\ rayData.shadowRay = <<last.ls.rayDir, last.ls.rayDistance>>
    /\ rayData.Lr = Zero3
    /\ rayData.pathLength > 0
    /\ AnyPositive(rayData.thp)
    /\ traceCount = 0

\* C19: no call changes terminated from true to false: a terminated payload
\* stays terminated through every later traceShadowRay call and every later
\* dispatch of handleHit (with generateShadowRay and generateScatterRay) or
\* handleMiss.
C19_TerminatedMonotone ==
    [][rayData.terminated => rayData'.terminated]_vars

\* handleHit has generated a next segment on a payload that was terminated
\* before the call: the throughput is not zero and the flag is still set.
C19_Witness ==
    /\ last.op = "traceScatterRay"
    /\ last.outcome = "hit"
    /\ rayData.hGenScatter
    /\ rayData.hLate
    /\ AnyPositive(rayData.thp)
    /\ rayData.terminated

\* C20: a handleHit call that resolves no emission (the configuration
\* excludes it or the surface emits nothing) leaves Le at the value it held
\* on entry.
C20_LeNotReset ==
    [][ (last'.op = "handleHit" /\ ~EmissiveResolved(last'.sd)) =>
            rayData'.Le = rayData.Le
      ]_vars

\* handleHit has hit a surface that emits nothing and generated the next
\* segment, and the payload still holds the radiance an earlier call wrote.
C20_Witness ==
    /\ last.op = "handleHit"
    /\ ~AnyPositive(last.sd.emissive)
    /\ rayData.hGenScatter
    /\ AnyPositive(rayData.Le)

\* C21: after execute the FBO has a depth-stencil target, the clear flags
\* include Depth exactly when the render data of the call supplied no depth
\* texture, and in that case the depth target is the texture the pass created
\* itself.
C21_DepthTargetAfterExecute ==
    passLast.op = "execute" =>
        /\ pass.mpFbo.depthStencil # "null"
        /\ ("Depth" \in pass.mClearFlags) <=> (passLast.pRenderData.depth = "null")
        /\ passLast.pRenderData.depth = "null" =>
                pass.mpFbo.depthStencil = OwnDepth

====
